---- MODULE Spec2Model ----
(***************************************************************************)
(* Model of scripts/apply_icons.py: a one-shot script that walks a vault   *)
(* of markdown files and makes each file's frontmatter carry a navigation  *)
(* icon chosen from the file's top-level folder.                           *)
(*                                                                         *)
(* File contents and paths are TLA+ strings; the Python str operations the *)
(* script uses (startswith, find, in, split, slicing) are modelled         *)
(* character by character with Python's 0-based indices.                   *)
(***************************************************************************)
EXTENDS Integers, Sequences, FiniteSets, TLC

(***************************************************************************)
(* Bounds of the model.                                                    *)
(***************************************************************************)
\* longest initial document, in lines, of the single-file specification
MaxLines == 4
\* largest number of directory entries in the tree of the tree specification
NFiles == 3
\* how many times the script is run over the same tree
MaxRuns == 2

(***************************************************************************)
(* Python str primitives.                                                  *)
(***************************************************************************)
SetMin(S) == CHOOSE i \in S : \A j \in S : i <= j

\* s[i:i+len(p)] == p, i 0-based
MatchAt(s, p, i) ==
    /\ i >= 0
    /\ i + Len(p) <= Len(s)
    /\ SubSeq(s, i + 1, i + Len(p)) = p

\* s.find(p, start): lowest 0-based index >= start where p occurs, else -1
Find(s, p, start) ==
    LET hits == {i \in start..(Len(s) - Len(p)) : MatchAt(s, p, i)}
    IN  IF hits = {} THEN -1 ELSE SetMin(hits)

\* p in s
In(p, s) == Find(s, p, 0) # -1

\* s.startswith(p)
StartsWith(s, p) == MatchAt(s, p, 0)

\* s.endswith(p)
EndsWith(s, p) == MatchAt(s, p, Len(s) - Len(p))

\* a slice bound as Python normalises it: negative counts from the end,
\* everything is clamped to 0..len
SliceIndex(i, n) ==
    IF i < 0 THEN (IF n + i < 0 THEN 0 ELSE n + i)
    ELSE (IF i > n THEN n ELSE i)

\* s[lo:hi]
Slice(s, lo, hi) ==
    LET a == SliceIndex(lo, Len(s))
        b == SliceIndex(hi, Len(s))
    IN  IF a >= b THEN "" ELSE SubSeq(s, a + 1, b)

\* s[lo:]
SliceFrom(s, lo) ==
    LET a == SliceIndex(lo, Len(s))
    IN  IF a >= Len(s) THEN "" ELSE SubSeq(s, a + 1, Len(s))

\* s.split(sep)[1]: the text between the first occurrence of sep and the
\* next one (or the end of s).  Python raises IndexError when sep does not
\* occur; the only call site is guarded by startswith('---\n').
SplitSecond(s, sep) ==
    LET i0 == Find(s, sep, 0)
        i1 == Find(s, sep, i0 + Len(sep))
    IN  IF i1 = -1 THEN SliceFrom(s, i0 + Len(sep))
        ELSE Slice(s, i0 + Len(sep), i1)

(***************************************************************************)
(* Configuration of the script.                                            *)
(***************************************************************************)
ICON_MAP ==
    "Blog" :> "i-lucide-scroll" @@
    "Project" :> "i-lucide-box" @@
    "Research" :> "i-lucide-microscope" @@
    "Templates" :> "i-lucide-layout-template" @@
    "Bases" :> "i-lucide-database"

DEFAULT_ICON == "i-lucide-file"

\* the "special cases" table of update_file_icon: name -> icon
OVERRIDES ==
    "About.md" :> "i-lucide-user" @@
    "Colophon.md" :> "i-lucide-info" @@
    "Home.md" :> "i-lucide-home" @@
    "TODO.md" :> "i-lucide-check-square" @@
    "README.md" :> "i-lucide-book" @@
    "AGENTS.md" :> "i-lucide-bot"

(***************************************************************************)
(* Icon resolution, from the path of the file relative to VAULT_ROOT.      *)
(***************************************************************************)
\* rel_path.split('/')[0] if '/' in rel_path else ""
FolderOf(rel_path) ==
    IF In("/", rel_path) THEN Slice(rel_path, 0, Find(rel_path, "/", 0))
    ELSE ""

\* ICON_MAP.get(folder, DEFAULT_ICON)
IconMapGet(folder) ==
    IF folder \in DOMAIN ICON_MAP THEN ICON_MAP[folder] ELSE DEFAULT_ICON

\* the six `if folder == "<name>": icon = ...` statements: they compare the
\* FOLDER (first path segment), not the file name
SpecialCase(folder, icon) ==
    IF folder \in DOMAIN OVERRIDES THEN OVERRIDES[folder] ELSE icon

ResolveIcon(rel_path) ==
    LET folder == FolderOf(rel_path)
    IN  SpecialCase(folder, IconMapGet(folder))

(***************************************************************************)
(* The transformation of one document.                                     *)
(***************************************************************************)
\* content.startswith('---\n')
HasFrontmatterLeadingNewline(content) == StartsWith(content, "\n---\n")
HasFrontmatter(content) == StartsWith(content, "---\n")

\* "icon:" in content.split('---')[1]
IconAlreadySet(content) == In("icon:", SplitSecond(content, "---"))

\* f"---\nnavigation:\n  icon: {icon}\n---\n\n" + content
PrependNoBlankLine(content, icon) ==
    "---\nnavigation:\n  icon: " \o icon \o "\n---\n" \o content
Prepend(content, icon) ==
    "---\nnavigation:\n  icon: " \o icon \o "\n---\n\n" \o content

\* the branch that adds a navigation section to an existing frontmatter
AddNavigationAtTop(content, icon) ==
    Slice(content, 0, 3) \o "\nnavigation:\n  icon: " \o icon
        \o SliceFrom(content, 3)
AddNavigation(content, icon) ==
    LET fm_end == Find(content, "\n---", 3)
        frontmatter == Slice(content, 3, fm_end)
        new_fm == frontmatter \o "\nnavigation:\n  icon: " \o icon
    IN  Slice(content, 0, 3) \o new_fm \o SliceFrom(content, fm_end)

\* "navigation:" in frontmatter
HasNavigation(content) ==
    LET fm_end == Find(content, "\n---", 3)
        frontmatter == Slice(content, 3, fm_end)
    IN  In("navigation:", frontmatter)

\* lines 36-73: the new content and what is printed
Transform(content, icon, rel_path) ==
    IF ~HasFrontmatter(content)
    THEN [content |-> Prepend(content, icon),
          printed |-> <<"Added frontmatter with icon to " \o rel_path>>]
    ELSE IF IconAlreadySet(content)
    THEN [content |-> content, printed |-> <<>>]
    ELSE IF HasNavigation(content)
    THEN [content |-> content, printed |-> <<>>]
    ELSE [content |-> AddNavigation(content, icon),
          printed |-> <<"Added icon to existing frontmatter in "
                          \o rel_path>>]

(***************************************************************************)
(* The tree.                                                               *)
(***************************************************************************)
\* the last path segment
RECURSIVE Basename(_)
Basename(rel_path) ==
    IF In("/", rel_path)
    THEN Basename(SliceFrom(rel_path, Find(rel_path, "/", 0) + 1))
    ELSE rel_path

\* file.endswith(".md")
IsMarkdown(rel_path) == EndsWith(Basename(rel_path), ".md")

\* a directory listing in an order os.walk can produce (top-down: the files
\* of a directory come before the files of its sub-directories)
Listing ==
    << "Home.md", "Blog/pic.png", "Blog/2024/post.md", "Misc/x.md",
       "About.md/x.md", "Research/README.md" >>

\* documents of the tree specification
Docs ==
    { "# Title\ntext",
      "---\nnavigation:\n  title: X\n---\nBody",
      "---\nicon: i-lucide-custom\n---\nBody",
      "---\ntitle: X\n---\nBody",
      "---\ntitle: a---b\nicon: i-lucide-custom\n---\nBody",
      "---\nnavigation:" }

\* the trees of at most n entries: order-preserving selections of Listing
Walks(n) ==
    LET Pick(S) == [i \in 1..Cardinality(S) |->
                      Listing[SetMin({k \in S :
                          Cardinality({j \in S : j < k}) = i - 1})]]
    IN  {Pick(S) : S \in {T \in SUBSET (1..Len(Listing)) :
                            Cardinality(T) \in 1..n}}

\* lines a document of the single-file specification is made of
LineKinds ==
    { "---", "navigation:", "  icon: i-lucide-custom",
      "icon: i-lucide-custom", "title: a---b", "# T", "----", "" }

\* "\n".join(lines)
RECURSIVE Join(_)
Join(lines) ==
    IF Len(lines) = 0 THEN ""
    ELSE IF Len(lines) = 1 THEN lines[1]
    ELSE lines[1] \o "\n" \o Join(Tail(lines))

OnePaths == { "Home.md", "Blog/2024/post.md", "Blog/pic.png" }

(***************************************************************************)
(* State.                                                                  *)
(***************************************************************************)
VARIABLES
    walk,      \* the entries os.walk yields, in order (relative paths)
    fs,        \* fs[i]: the content on disk of entry walk[i]
    idx,       \* the entry the walk loop is at
    pc,        \* "walk" | "write" | "done" | "aborted"
    content,   \* local of update_file_icon
    icon,      \* local of update_file_icon
    stdout,    \* the lines printed by the current run
    iolog,     \* the successful reads and writes of the current run
    run,       \* the number of the current run
    before,    \* the contents on disk when the current run started
    failed     \* the entry at which an I/O error was raised, 0 if none

vars == <<walk, fs, idx, pc, content, icon, stdout, iolog, run, before,
          failed>>

InitRest ==
    /\ idx = 1
    /\ pc = "walk"
    /\ content = ""
    /\ icon = ""
    /\ stdout = <<>>
    /\ iolog = <<>>
    /\ run = 1
    /\ before = fs
    /\ failed = 0

\* a tree of up to NFiles entries holding the documents of Docs
Init ==
    /\ walk \in Walks(NFiles)
    /\ fs \in [1..Len(walk) -> Docs]
    /\ InitRest

\* a tree of one file holding any document of up to MaxLines lines
InitOne ==
    /\ \E p \in OnePaths : walk = <<p>>
    /\ \E n \in 0..MaxLines : \E ls \in [1..n -> LineKinds] :
          fs = <<Join(ls)>>
    /\ InitRest

(***************************************************************************)
(* Actions.                                                                *)
(***************************************************************************)
\* an uncaught exception ends the process
AfterFailureContinue(i) == [pc |-> "walk", idx |-> i + 1]
AfterFailure(i) == [pc |-> "aborted", idx |-> i]

\* the loop skips an entry that does not end in ".md"
walk_skip ==
    /\ pc = "walk"
    /\ idx <= Len(walk)
    /\ ~IsMarkdown(walk[idx])
    /\ idx' = idx + 1
    /\ UNCHANGED <<walk, fs, pc, content, icon, stdout, iolog, run, before,
                   failed>>

\* update_file_icon up to the write: read, resolve the icon, transform
update_file_icon_read ==
    /\ pc = "walk"
    /\ idx <= Len(walk)
    /\ IsMarkdown(walk[idx])
    /\ LET rel_path == walk[idx]
           t == Transform(fs[idx], ResolveIcon(rel_path), rel_path)
       IN  /\ icon' = ResolveIcon(rel_path)
           /\ content' = t.content
           /\ stdout' = stdout \o t.printed
    /\ iolog' = Append(iolog, [op |-> "read", file |-> idx])
    /\ pc' = "write"
    /\ UNCHANGED <<walk, fs, idx, run, before, failed>>

\* open(filepath, 'r') or f.read() raises
read_fails ==
    /\ pc = "walk"
    /\ idx <= Len(walk)
    /\ IsMarkdown(walk[idx])
    /\ failed' = idx
    /\ pc' = AfterFailure(idx).pc
    /\ idx' = AfterFailure(idx).idx
    /\ UNCHANGED <<walk, fs, content, icon, stdout, iolog, run, before>>

\* the unconditional write that ends update_file_icon
update_file_icon_write ==
    /\ pc = "write"
    /\ fs' = [fs EXCEPT ![idx] = content]
    /\ iolog' = Append(iolog, [op |-> "write", file |-> idx])
    /\ idx' = idx + 1
    /\ pc' = "walk"
    /\ UNCHANGED <<walk, content, icon, stdout, run, before, failed>>

\* open(filepath, 'w') raises and the file is untouched, or the file is
\* opened (truncated) and f.write raises
write_fails ==
    /\ pc = "write"
    /\ \E left \in {fs[idx], ""} : fs' = [fs EXCEPT ![idx] = left]
    /\ failed' = idx
    /\ pc' = AfterFailure(idx).pc
    /\ idx' = AfterFailure(idx).idx
    /\ UNCHANGED <<walk, content, icon, stdout, iolog, run, before>>

\* os.walk is exhausted
walk_finish ==
    /\ pc = "walk"
    /\ idx > Len(walk)
    /\ pc' = "done"
    /\ UNCHANGED <<walk, fs, idx, content, icon, stdout, iolog, run, before,
                   failed>>

\* the script is run again over the tree the previous run left
Rerun ==
    /\ pc = "done"
    /\ run < MaxRuns
    /\ run' = run + 1
    /\ idx' = 1
    /\ pc' = "walk"
    /\ content' = ""
    /\ icon' = ""
    /\ stdout' = <<>>
    /\ iolog' = <<>>
    /\ before' = fs
    /\ failed' = 0
    /\ UNCHANGED <<walk, fs>>

Next ==
    \/ walk_skip
    \/ update_file_icon_read
    \/ read_fails
    \/ update_file_icon_write
    \/ write_fails
    \/ walk_finish
    \/ Rerun

Spec == Init /\ [][Next]_vars

SpecOne == InitOne /\ [][Next]_vars

TypeOK ==
    /\ idx \in 1..(Len(walk) + 1)
    /\ pc \in {"walk", "write", "done", "aborted"}
    /\ run \in 1..MaxRuns
    /\ failed \in 0..Len(walk)
    /\ Len(fs) = Len(walk)

(***************************************************************************)
(* Vocabulary of the properties.                                           *)
(***************************************************************************)
\* the entries the current run has written
Written == {iolog[k].file : k \in {n \in DOMAIN iolog : iolog[n].op = "write"}}

\* positions of a closing sentinel: a line that is exactly "---", after the
\* opening one
ClosingSentinels(c) ==
    {k \in 3..Len(c) : /\ MatchAt(c, "\n---", k)
                       /\ (k + 4 = Len(c) \/ MatchAt(c, "\n", k + 4))}

\* c begins with a metadata block: an opening and a closing sentinel line
HasBlock(c) == StartsWith(c, "---\n") /\ ClosingSentinels(c) # {}

BlockEnd(c) == SetMin(ClosingSentinels(c))

\* the text between the opening and the closing sentinel
Block(c) == Slice(c, 3, BlockEnd(c))

\* an icon: line somewhere after a navigation: key inside block b
NavigationIcon(b) ==
    /\ In("navigation:", b)
    /\ Find(b, "\n  icon:", Find(b, "navigation:", 0)) # -1

\* the first line after the opening sentinel that starts with "---"
FirstDashLine(c) == SetMin({k \in 3..Len(c) : MatchAt(c, "\n---", k)})

\* the icon the mapping gives the first path segment
MappedIcon(rel_path) ==
    IF FolderOf(rel_path) \in DOMAIN ICON_MAP
    THEN ICON_MAP[FolderOf(rel_path)] ELSE DEFAULT_ICON

\* the diagnostics printed about entry i
Diagnostics(i) ==
    {m \in 1..Len(stdout) : EndsWith(stdout[m], " " \o walk[i])}

(***************************************************************************)
(* Properties.                                                             *)
(***************************************************************************)
\* C1: after a complete run every .md file begins with a metadata block
\* that holds an icon entry nested under navigation.
C1_EveryFileHasNavigationIcon ==
    pc = "done" =>
        \A i \in 1..Len(walk) : IsMarkdown(walk[i]) =>
            HasBlock(fs[i]) /\ NavigationIcon(Block(fs[i]))

\* C2: a run that follows a complete run changes no file and prints no
\* diagnostic (the content it is about to write is the content on disk).
C2_Idempotent ==
    (run > 1 /\ failed = 0) =>
        /\ fs = before
        /\ stdout = <<>>
        /\ (pc = "write" => content = fs[idx])

C2_Witness ==
    /\ run = 2
    /\ pc = "done"
    /\ \E i \in Written : In("  icon: " \o ResolveIcon(walk[i]), fs[i])
    /\ \E i \in Written : ~In("  icon: " \o ResolveIcon(walk[i]), fs[i])

\* C3: a .md file whose name is an override key is given the override's
\* icon, wherever it lies.
C3_OverridePrecedence ==
    pc = "write" =>
        (Basename(walk[idx]) \in DOMAIN OVERRIDES =>
            icon = OVERRIDES[Basename(walk[idx])])

\* C4: a block without an icon: key that declares navigation gets an icon:
\* line with the resolved icon inserted in the block; every other character
\* of the file is kept.
C4_IconAddedUnderNavigation ==
    \A i \in Written :
        LET c == before[i] IN
        (HasBlock(c) /\ ~In("icon:", Block(c)) /\ In("navigation:", Block(c)))
        => \E p \in 3..BlockEnd(c) :
              fs[i] = Slice(c, 0, p) \o "\n  icon: " \o ResolveIcon(walk[i])
                          \o SliceFrom(c, p)

\* C5 as stated: a block with neither a navigation entry nor an icon: key
\* is left as it is and nothing is printed about the file.
C5_NeitherIsNoOp ==
    \A i \in Written :
        LET c == before[i] IN
        (HasBlock(c) /\ ~In("icon:", Block(c)) /\ ~In("navigation:", Block(c)))
        => (fs[i] = c /\ Diagnostics(i) = {})

\* C5 amended: a block with neither a navigation entry nor an icon: key
\* gets the lines "navigation:" and "  icon: <icon>" inserted before the
\* first line after the opening sentinel that starts with "---" (the
\* closing sentinel when no line of the block does), nothing else changes,
\* and "Added icon to existing frontmatter in <path>" is printed.
C5_NeitherGetsNavigation ==
    \A i \in Written :
        LET c == before[i] IN
        (HasBlock(c) /\ ~In("icon:", Block(c)) /\ ~In("navigation:", Block(c)))
        => /\ fs[i] = Slice(c, 0, FirstDashLine(c))
                        \o "\nnavigation:\n  icon: " \o ResolveIcon(walk[i])
                        \o SliceFrom(c, FirstDashLine(c))
           /\ \E m \in Diagnostics(i) :
                 stdout[m] = "Added icon to existing frontmatter in "
                                \o walk[i]

C5_Witness ==
    \E i \in Written :
        LET c == before[i] IN
        /\ HasBlock(c) /\ ~In("icon:", Block(c)) /\ ~In("navigation:", Block(c))
        /\ Len(Block(c)) > 0
        /\ fs[i] # c

\* C6: a file is written if and only if processing changed its content.
C6_WriteOnlyOnChange ==
    pc = "done" =>
        \A i \in 1..Len(walk) : (i \in Written <=> fs[i] # before[i])

\* C7: a mutated file whose name is not an override key carries the icon
\* the mapping gives its first path segment, the default icon when the
\* segment is no key or the file lies at the root.
C7_FolderMapping ==
    \A i \in Written :
        (fs[i] # before[i] /\ Basename(walk[i]) \notin DOMAIN OVERRIDES)
        => In("\n  icon: " \o MappedIcon(walk[i]), fs[i])

\* C8: a file whose metadata block holds an icon: key anywhere is left
\* byte for byte as it was.
C8_AlreadyConfigured ==
    \A i \in Written :
        (HasBlock(before[i]) /\ In("icon:", Block(before[i])))
        => fs[i] = before[i]

\* C9: a file that does not start with the sentinel line becomes the block
\* "---", "navigation:", "  icon: <icon>", "---", a blank line, and then
\* the whole original content.
C9_NoFrontmatter ==
    \A i \in Written :
        ~StartsWith(before[i], "---\n")
        => fs[i] = "---\nnavigation:\n  icon: " \o ResolveIcon(walk[i])
                      \o "\n---\n\n" \o before[i]

C9_Witness ==
    \E i \in Written :
        /\ ~StartsWith(before[i], "---\n")
        /\ StartsWith(before[i], "# ")
        /\ fs[i] # before[i]

\* C10: reads and writes alternate file by file in walk order, and an I/O
\* failure ends the run at the failing file: nothing after it is read or
\* written, and the files before it hold their results.
C10_SequentialAbort ==
    /\ \A k \in DOMAIN iolog :
          /\ iolog[k].op = (IF k % 2 = 1 THEN "read" ELSE "write")
          /\ (k % 2 = 0 => iolog[k].file = iolog[k - 1].file)
          /\ (k > 2 => iolog[k].file > iolog[k - 2].file)
    /\ pc = "write" => (Len(iolog) % 2 = 1 /\ iolog[Len(iolog)].file = idx)
    /\ pc = "walk" => Len(iolog) % 2 = 0
    /\ failed # 0 =>
          /\ pc = "aborted"
          /\ idx = failed
          /\ \A k \in DOMAIN iolog : iolog[k].file <= failed
          /\ \A j \in 1..Len(walk) : j > failed => fs[j] = before[j]
          /\ \A j \in 1..Len(walk) : (j < failed /\ IsMarkdown(walk[j])) =>
                /\ j \in Written
                /\ fs[j] = Transform(before[j], ResolveIcon(walk[j]),
                                     walk[j]).content

C10_Witness ==
    /\ pc = "aborted"
    /\ failed > 1
    /\ 1 \in Written
    /\ fs[1] # before[1]
    /\ \E j \in 1..Len(walk) : j > failed /\ IsMarkdown(walk[j])
====
